---- MODULE Spec2Model ----
(***************************************************************************)
(* A model of mage_ai/io/base.py: the connector base classes BaseIO,       *)
(* BaseFile, BaseSQLDatabase and BaseSQLConnection, and FileFormat.        *)
(*                                                                         *)
(* Text (str) values are sequences of one-character strings, so that       *)
(* strip, splitext, lower and the comparisons of the code are computed.    *)
(* Each group of operations has its own specification:                     *)
(*   Spec       BaseSQLConnection: open/close/conn/commit/rollback, scopes *)
(*   SpecExt    FileFormat.from_extension, BaseFile._get_file_format       *)
(*   SpecWrite  BaseFile._write                                            *)
(*   SpecRead   BaseFile._read                                             *)
(*   SpecClean  BaseSQLDatabase._clean_column_name                         *)
(*   SpecLimit  BaseIO._enforce_limit, BaseSQLDatabase.sample              *)
(***************************************************************************)
EXTENDS Integers, Sequences, FiniteSets, TLC

VARIABLES
    \* ---- BaseSQLConnection instance and its caller
    ctx,         \* self._ctx: the id of the handle held, NoCtx when '_ctx' not in __dict__
    nHandles,    \* handles created so far by open (ids 1..nHandles)
    closeCalls,  \* per handle: how many times its close() was invoked
    lastCall,    \* the last method invoked on a handle: [h, m]
    verbose,     \* self.verbose
    prevMsg,     \* self.printer.exists_previous_message
    separators,  \* blank lines printed by close
    scope,       \* the with-blocks entered and not left, innermost first
    exited,      \* the with-block left last
    alive,       \* FALSE once __del__ has run
    res,         \* the last call on the connector and its outcome
    \* ---- FileFormat.from_extension, BaseFile._get_file_format
    filepath,    \* the argument of _get_file_format
    ext,         \* the argument of from_extension
    extOp,       \* which of the two was called
    fmt,         \* the tag returned, or the error raised
    \* ---- BaseFile._write
    wDf,         \* the table's runtime type
    wFormat,     \* the format argument
    wOutput,     \* the output argument: [kind, path]
    wKwargs,     \* the caller's keyword options
    wCalls,      \* the calls made on the writer: [writer, output, kwargs]
    wOut,        \* how _write ended
    \* ---- BaseFile._read
    rFormat,     \* the format argument
    rLimit,      \* the limit argument
    rTable,      \* the rows stored in the input
    rOut,        \* what _read returned or raised
    \* ---- BaseSQLDatabase._clean_column_name
    cName,       \* the column name given
    cFlags,      \* [allow_reserved_words, auto_clean_name, case_sensitive]
    cOut1,       \* the result of the first application
    cOut2,       \* the result of applying it to cOut1
    cPc,         \* "start", "once", "twice"
    \* ---- BaseIO._enforce_limit, BaseSQLDatabase.sample
    qQuery,      \* the query argument of _enforce_limit
    qArg,        \* the limit/size argument: [given, v]
    qOp,         \* which operation produced qStmt
    qStmt        \* the statement produced

connVars == <<ctx, nHandles, closeCalls, lastCall, verbose, prevMsg,
              separators, scope, exited, alive, res>>

extVars == <<filepath, ext, extOp, fmt>>

writeVars == <<wDf, wFormat, wOutput, wKwargs, wCalls, wOut>>

readVars == <<rFormat, rLimit, rTable, rOut>>

cleanVars == <<cName, cFlags, cOut1, cOut2, cPc>>

limitVars == <<qQuery, qArg, qOp, qStmt>>

vars == <<connVars, extVars, writeVars, readVars, cleanVars, limitVars>>

\* ---------------------------------------------------------------- bounds
MaxHandles == 3
MaxDepth == 2
MaxSeparators == 2
MaxRows == 3
MaxNameLen == 3
MaxQueryLen == 3
MaxLimit == 3

\* --------------------------------------------------------------- text
LowerLetters ==
    <<"a", "b", "c", "d", "e", "f", "g", "h", "i", "j", "k", "l", "m",
      "n", "o", "p", "q", "r", "s", "t", "u", "v", "w", "x", "y", "z">>

UpperLetters ==
    <<"A", "B", "C", "D", "E", "F", "G", "H", "I", "J", "K", "L", "M",
      "N", "O", "P", "Q", "R", "S", "T", "U", "V", "W", "X", "Y", "Z">>

IndexIn(letters, ch) ==
    IF \E i \in 1..Len(letters) : letters[i] = ch
    THEN CHOOSE i \in 1..Len(letters) : letters[i] = ch
    ELSE 0

\* str.upper() and str.lower() on one character, then on a text.
UpperChar(ch) ==
    IF IndexIn(LowerLetters, ch) # 0 THEN UpperLetters[IndexIn(LowerLetters, ch)] ELSE ch

LowerChar(ch) ==
    IF IndexIn(UpperLetters, ch) # 0 THEN LowerLetters[IndexIn(UpperLetters, ch)] ELSE ch

Upper(s) == [i \in 1..Len(s) |-> UpperChar(s[i])]

Lower(s) == [i \in 1..Len(s) |-> LowerChar(s[i])]

\* All texts over an alphabet up to a length.
RECURSIVE TextsOfLen(_, _)
TextsOfLen(alphabet, n) ==
    IF n = 0 THEN {<<>>}
    ELSE {Append(t, ch) : t \in TextsOfLen(alphabet, n - 1), ch \in alphabet}

Texts(alphabet, maxLen) == UNION {TextsOfLen(alphabet, n) : n \in 0..maxLen}

\* str.rfind(ch) + 1: the last position of ch, 0 when there is none.
LastIndexOf(s, ch) ==
    IF \E i \in 1..Len(s) : s[i] = ch
    THEN CHOOSE i \in 1..Len(s) : s[i] = ch /\ \A j \in (i + 1)..Len(s) : s[j] # ch
    ELSE 0

\* os.path.basename and os.path.splitext (posix).
basename(p) == SubSeq(p, LastIndexOf(p, "/") + 1, Len(p))

splitext(p) ==
    LET sep == LastIndexOf(p, "/")
        dot == LastIndexOf(p, ".")
    IN  IF dot > sep /\ \E i \in (sep + 1)..(dot - 1) : p[i] # "."
        THEN <<SubSeq(p, 1, dot - 1), SubSeq(p, dot, Len(p))>>
        ELSE <<p, <<>>>>

\* The slice s[1:].
DropFirst(s) == SubSeq(s, 2, Len(s))

\* ------------------------------------------------------- FileFormat
CSV == "csv"
JSON == "json"
PARQUET == "parquet"
HDF5 == "hdf5"
XML == "xml"
EXCEL == "excel"

FileFormat == {CSV, JSON, PARQUET, HDF5, XML, EXCEL}

\* from_extension comparing ext.lower() instead of ext.
from_extension_Lowercases(e) ==
    LET x == Lower(e) IN
    IF x = <<"c", "s", "v">> THEN CSV
    ELSE IF x = <<"j", "s", "o", "n">> THEN JSON
    ELSE IF x = <<"p", "a", "r", "q", "u", "e", "t">> THEN PARQUET
    ELSE IF x = <<"h", "d", "f", "5">> THEN HDF5
    ELSE IF x = <<"x", "m", "l">> THEN XML
    ELSE IF x \in {<<"x", "l", "s">>, <<"x", "l", "s", "x">>} THEN EXCEL
    ELSE "ValueError"

\* FileFormat.from_extension: a chain of exact comparisons, ValueError at the end.
from_extension(e) ==
    IF e = <<"c", "s", "v">> THEN CSV
    ELSE IF e = <<"j", "s", "o", "n">> THEN JSON
    ELSE IF e = <<"p", "a", "r", "q", "u", "e", "t">> THEN PARQUET
    ELSE IF e = <<"h", "d", "f", "5">> THEN HDF5
    ELSE IF e = <<"x", "m", "l">> THEN XML
    ELSE IF e \in {<<"x", "l", "s">>, <<"x", "l", "s", "x">>} THEN EXCEL
    ELSE "ValueError"

\* The argument _get_file_format passes on: splitext(basename(filepath))[-1][1:].
extension_of(fp) == DropFirst(splitext(basename(fp))[2])

_get_file_format(fp) == from_extension(extension_of(fp))

\* The extensions tried: each word in every mix of letter cases.
ExtWords ==
    { <<"c", "s", "v">>, <<"j", "s", "o", "n">>,
      <<"p", "a", "r", "q", "u", "e", "t">>, <<"h", "d", "f", "5">>,
      <<"x", "m", "l">>, <<"x", "l", "s">>, <<"x", "l", "s", "x">>,
      <<"e", "x", "c", "e", "l">>, <<"t", "x", "t">>, <<"c", "s">>,
      <<"c", "s", "v", "x">>, <<".", "c", "s", "v">>, <<>> }

CaseMix(w, up) == [i \in 1..Len(w) |-> IF i \in up THEN UpperChar(w[i]) ELSE w[i]]

ExtInputs ==
    {CaseMix(w, up) : w \in ExtWords, up \in SUBSET (1..4)}
        \cup {Upper(w) : w \in ExtWords}

PathInputs ==
    { <<"a", ".", "c", "s", "v">>,
      <<"d", "/", "a", ".", "C", "S", "V">>,
      <<"a", ".", "b", ".", "j", "s", "o", "n">>,
      <<".", "c", "s", "v">>,
      <<"d", ".", "x", "m", "l", "/", "a">>,
      <<"a", ".">>,
      <<"a", ".", "x", "l", "s", "x">>,
      <<"/", "d", "/", "t", ".", "h", "d", "f", "5">>,
      <<"t", ".", "X", "l", "s">>,
      <<"a">> }

IdleExt ==
    /\ filepath = <<>>
    /\ ext = <<>>
    /\ extOp = "none"
    /\ fmt = "pending"

InitExt ==
    /\ filepath \in PathInputs
    /\ ext \in ExtInputs
    /\ extOp = "none"
    /\ fmt = "pending"

\* ------------------------------------------------------ BaseFile._write
\* A keyword bag maps every option name to its value, or to Absent when the
\* caller did not pass it. Option values are texts.
Absent == <<"<absent>">>

OptionNames == {"coerce_timestamps", "allow_truncated_timestamps", "key", "index"}

OptionValues(k) ==
    CASE k = "coerce_timestamps" -> {<<"m", "s">>, <<"u", "s">>}
      [] k = "allow_truncated_timestamps" -> {<<"T">>, <<"F">>}
      [] k = "key" -> {<<"k">>}
      [] k = "index" -> {<<"F">>}

KwargsInputs == {kw \in [OptionNames -> UNION {OptionValues(k) : k \in OptionNames} \cup {Absent}] :
                   \A k \in OptionNames : kw[k] \in OptionValues(k) \cup {Absent}}

NoKwargs == [k \in OptionNames |-> Absent]

\* kwargs.setdefault(k, v) and kwargs[k] = v.
setdefault(kw, k, v) == IF kw[k] = Absent THEN [kw EXCEPT ![k] = v] ELSE kw

setitem(kw, k, v) == [kw EXCEPT ![k] = v]

\* The runtime types of the table: a polars DataFrame, a pandas DataFrame, or neither.
DfKinds == {"polars", "pandas", "other"}

\* The runtime types of the output argument: a str or os.PathLike path, a
\* stream of the io module (open(), io.BytesIO, io.StringIO), an instance of
\* a class that derives from typing.IO.
PathKinds == {"str", "PathLike"}

StreamKinds == {"io_stream", "typing_IO"}

OutputPaths ==
    { <<"s", "/", "m", "y", ".", "h", "d", "f", "5">>,
      <<"t", ".", "p", "a", "r", "q", "u", "e", "t">>,
      <<"o", "u", "t">> }

OutputInputs ==
    {[kind |-> k, path |-> pth] : k \in PathKinds, pth \in OutputPaths}
        \cup {[kind |-> k, path |-> <<>>] : k \in StreamKinds}

FormatInputs == FileFormat \cup {"None", "avro"}

\* isinstance(output, IO), IO being typing.IO: the streams of the io module
\* are not instances of it.
isinstance_IO(output) == output.kind = "typing_IO"

\* os.path.basename(output) accepts str, bytes and os.PathLike only.
is_pathlike(output) == output.kind \in PathKinds

\* __get_writer: the bound method of the table that writes the format.
\* A table that is neither polars nor pandas falls through: None.
get_writer(df, format) ==
    IF df = "polars"
    THEN IF format = CSV THEN "write_csv"
         ELSE IF format = JSON THEN "write_json"
         ELSE IF format = HDF5 THEN "write_hdf5"
         ELSE IF format = XML THEN "write_xml"
         ELSE IF format = EXCEL THEN "write_excel"
         ELSE "write_parquet"
    ELSE IF df = "pandas"
    THEN IF format = CSV THEN "to_csv"
         ELSE IF format = JSON THEN "to_json"
         ELSE IF format = HDF5 THEN "to_hdf"
         ELSE IF format = XML THEN "to_xml"
         ELSE IF format = EXCEL THEN "to_excel"
         ELSE "to_parquet"
    ELSE "None"

\* The final statement of _write: writer(output, **kwargs).
call_writer(writer, output, kw) ==
    IF writer = "None"
    THEN [out |-> "TypeError", calls |-> <<>>]
    ELSE [out |-> "ok", calls |-> <<[writer |-> writer, output |-> output, kwargs |-> kw]>>]

\* _write(df, format, output, **kwargs).
write(df, format, output, kw) ==
    LET f == IF format = "None" THEN PARQUET ELSE format
        writer == get_writer(df, f)
    IN  IF f = HDF5
        THEN IF isinstance_IO(output)
             THEN [out |-> "ValueError", calls |-> <<>>]
             ELSE IF ~is_pathlike(output)
             THEN [out |-> "TypeError", calls |-> <<>>]
             ELSE call_writer(writer, output,
                              setdefault(kw, "key", splitext(basename(output.path))[1]))
        ELSE IF f = PARQUET /\ df = "pandas"
        THEN IF kw["coerce_timestamps"] = Absent
             THEN call_writer(writer, output,
                              setitem(setitem(kw, "coerce_timestamps", <<"m", "s">>),
                                      "allow_truncated_timestamps", <<"T">>))
             ELSE call_writer(writer, output, kw)
        ELSE call_writer(writer, output, kw)

IdleWrite ==
    /\ wDf = "pandas"
    /\ wFormat = "None"
    /\ wOutput = [kind |-> "str", path |-> <<>>]
    /\ wKwargs = NoKwargs
    /\ wCalls = <<>>
    /\ wOut = "pending"

InitWrite ==
    /\ wDf \in DfKinds
    /\ wFormat \in FormatInputs
    /\ wOutput \in OutputInputs
    /\ wKwargs \in KwargsInputs
    /\ wCalls = <<>>
    /\ wOut = "pending"

\* ------------------------------------------------------- BaseFile._read
QUERY_ROW_LIMIT == 10000000

\* A table is the sequence of its rows; a row is named by a number.
TableInputs == Texts(1..MaxRows, MaxRows)

LimitInputs == (0..(MaxRows + 1)) \cup {QUERY_ROW_LIMIT}

\* __get_reader: the pandas reader of the format, ValueError for anything else.
get_reader(format) ==
    IF format = CSV THEN "read_csv"
    ELSE IF format = JSON THEN "read_json"
    ELSE IF format = PARQUET THEN "read_parquet"
    ELSE IF format = HDF5 THEN "read_hdf"
    ELSE IF format = XML THEN "read_xml"
    ELSE IF format = EXCEL THEN "read_excel"
    ELSE "ValueError"

\* The slice df[:limit] of __trim_df.
trim_df(df, limit) ==
    IF limit >= 0
    THEN SubSeq(df, 1, IF limit < Len(df) THEN limit ELSE Len(df))
    ELSE SubSeq(df, 1, IF Len(df) + limit > 0 THEN Len(df) + limit ELSE 0)

\* _read(input, format, limit, **kwargs): df = reader(input, **kwargs); return df.
\* stored is what the reader finds in the input, readerOk whether it succeeds.
read(stored, format, limit, readerOk) ==
    IF get_reader(format) = "ValueError"
    THEN [status |-> "ValueError", df |-> <<>>]
    ELSE IF ~readerOk
    THEN [status |-> "ReaderError", df |-> <<>>]
    ELSE [status |-> "ok", df |-> stored]

NoResult == [status |-> "pending", df |-> <<>>]

IdleRead ==
    /\ rFormat = "None"
    /\ rLimit = QUERY_ROW_LIMIT
    /\ rTable = <<>>
    /\ rOut = NoResult

InitRead ==
    /\ rFormat \in FormatInputs
    /\ rLimit \in LimitInputs
    /\ rTable \in TableInputs
    /\ rOut = NoResult

\* ------------------------------ BaseSQLDatabase._clean_column_name
\* The characters names are built from: letters in both cases, a blank and
\* an underscore.
NameAlphabet == {"a", "s", "A", "S", " ", "_"}

NameInputs == Texts(NameAlphabet, MaxNameLen)

FlagInputs == [allow_reserved_words : BOOLEAN, auto_clean_name : BOOLEAN,
               case_sensitive : BOOLEAN]

DefaultFlags == [allow_reserved_words |-> FALSE, auto_clean_name |-> TRUE,
                 case_sensitive |-> FALSE]

\* mage_ai.io.constants.SQL_RESERVED_WORDS: upper-case SQL keywords; AS is the
\* one that can be written with the alphabet.
SQL_RESERVED_WORDS == {<<"A", "S">>}

\* A character of an identifier: a letter, a digit or an underscore.
IsWordChar(ch) ==
    \/ IndexIn(LowerLetters, ch) # 0
    \/ IndexIn(UpperLetters, ch) # 0
    \/ ch \in {"0", "1", "2", "3", "4", "5", "6", "7", "8", "9", "_"}

\* mage_ai.shared.utils.clean_name: blanks and punctuation become
\* underscores, and the case is folded unless case_sensitive.
clean_name(name, case_sensitive) ==
    LET norm == [i \in 1..Len(name) |-> IF IsWordChar(name[i]) THEN name[i] ELSE "_"]
    IN  IF case_sensitive THEN norm ELSE Lower(norm)

\* The slice that drops the leading underscores of a text.
RECURSIVE lstrip_underscore(_)
lstrip_underscore(s) ==
    IF s # <<>> /\ Head(s) = "_" THEN lstrip_underscore(Tail(s)) ELSE s

\* _clean_column_name looking the name up without its leading underscores.
clean_column_name_IgnoresPrefix(name, flags) ==
    IF ~flags.auto_clean_name THEN name
    ELSE LET col_new == clean_name(name, flags.case_sensitive)
         IN  IF ~flags.allow_reserved_words
                  /\ Upper(lstrip_underscore(col_new)) \in SQL_RESERVED_WORDS
             THEN <<"_">> \o col_new
             ELSE col_new

\* _clean_column_name(column_name, allow_reserved_words, auto_clean_name, case_sensitive).
clean_column_name(name, flags) ==
    IF ~flags.auto_clean_name THEN name
    ELSE LET col_new == clean_name(name, flags.case_sensitive)
         IN  IF ~flags.allow_reserved_words /\ Upper(col_new) \in SQL_RESERVED_WORDS
             THEN <<"_">> \o col_new
             ELSE col_new

IdleClean ==
    /\ cName = <<>>
    /\ cFlags = DefaultFlags
    /\ cOut1 = <<>>
    /\ cOut2 = <<>>
    /\ cPc = "start"

InitClean ==
    /\ cName \in NameInputs
    /\ cFlags \in FlagInputs
    /\ cOut1 = <<>>
    /\ cOut2 = <<>>
    /\ cPc = "start"

\* ------------------------- BaseIO._enforce_limit, BaseSQLDatabase.sample
QueryAlphabet == {"q", ";"}

QueryInputs == Texts(QueryAlphabet, MaxQueryLen)

\* The limit (size) argument: passed with a value, or left out.
Omitted == [given |-> FALSE, v |-> 0]

ArgInputs == {[given |-> TRUE, v |-> n] : n \in (-MaxLimit)..MaxLimit} \cup {Omitted}

\* The parameter's value inside the method: the default is QUERY_ROW_LIMIT.
ArgValue(arg) == IF arg.given THEN arg.v ELSE QUERY_ROW_LIMIT

\* str.strip(';'): the text without its leading and trailing semicolons.
RECURSIVE strip_semicolons(_)
strip_semicolons(q) ==
    IF q = <<>> THEN q
    ELSE IF Head(q) = ";" THEN strip_semicolons(Tail(q))
    ELSE IF q[Len(q)] = ";" THEN strip_semicolons(SubSeq(q, 1, Len(q) - 1))
    ELSE q

\* _enforce_limit writing the constant instead of its limit parameter.
enforce_limit_IgnoresArgument(query, arg) ==
    [shape |-> "subquery", source |-> strip_semicolons(query),
     limit |-> QUERY_ROW_LIMIT, terminator |-> ""]

\* _enforce_limit(query, limit): the statement
\*   WITH subquery AS ( {query} ) SELECT * FROM subquery LIMIT {limit}
enforce_limit(query, arg) ==
    [shape |-> "subquery", source |-> strip_semicolons(query),
     limit |-> ArgValue(arg), terminator |-> ""]

\* sample(schema, table, size): the statement handed to load,
\*   SELECT * FROM {schema}.{table} LIMIT {size};
sample(schema, table, arg) ==
    [shape |-> "select_all", source |-> schema \o <<".">> \o table,
     limit |-> ArgValue(arg), terminator |-> ";"]

SchemaInputs == {<<"p">>, <<"s">>}

TableNameInputs == {<<"u">>, <<"t">>}

NoStatement == [shape |-> "none", source |-> <<>>, limit |-> 0, terminator |-> ""]

IdleLimit ==
    /\ qQuery = <<>>
    /\ qArg = Omitted
    /\ qOp = "none"
    /\ qStmt = NoStatement

InitLimit ==
    /\ qQuery \in QueryInputs
    /\ qArg \in ArgInputs
    /\ qOp = "none"
    /\ qStmt = NoStatement

\* ------------------------------------- the operations of the file classes
FromExtension ==
    /\ extOp' = "from_extension"
    /\ fmt' = from_extension(ext)
    /\ UNCHANGED <<filepath, ext>>
    /\ UNCHANGED <<connVars, writeVars, readVars, cleanVars, limitVars>>

GetFileFormat ==
    /\ extOp' = "_get_file_format"
    /\ ext' = extension_of(filepath)
    /\ fmt' = _get_file_format(filepath)
    /\ UNCHANGED filepath
    /\ UNCHANGED <<connVars, writeVars, readVars, cleanVars, limitVars>>

NextExt ==
    \/ FromExtension
    \/ GetFileFormat

Write ==
    /\ wOut = "pending"
    /\ LET r == write(wDf, wFormat, wOutput, wKwargs) IN
         /\ wOut' = r.out
         /\ wCalls' = r.calls
    /\ UNCHANGED <<wDf, wFormat, wOutput, wKwargs>>
    /\ UNCHANGED <<connVars, extVars, readVars, cleanVars, limitVars>>

NextWrite == Write

Read ==
    /\ rOut = NoResult
    /\ \E readerOk \in BOOLEAN :
         rOut' = read(rTable, rFormat, rLimit, readerOk)
    /\ UNCHANGED <<rFormat, rLimit, rTable>>
    /\ UNCHANGED <<connVars, extVars, writeVars, cleanVars, limitVars>>

NextRead == Read

CleanOnce ==
    /\ cPc = "start"
    /\ cOut1' = clean_column_name(cName, cFlags)
    /\ cPc' = "once"
    /\ UNCHANGED <<cName, cFlags, cOut2>>
    /\ UNCHANGED <<connVars, extVars, writeVars, readVars, limitVars>>

CleanAgain ==
    /\ cPc = "once"
    /\ cOut2' = clean_column_name(cOut1, cFlags)
    /\ cPc' = "twice"
    /\ UNCHANGED <<cName, cFlags, cOut1>>
    /\ UNCHANGED <<connVars, extVars, writeVars, readVars, limitVars>>

NextClean ==
    \/ CleanOnce
    \/ CleanAgain

EnforceLimit ==
    /\ qOp' = "_enforce_limit"
    /\ qStmt' = enforce_limit(qQuery, qArg)
    /\ UNCHANGED <<qQuery, qArg>>
    /\ UNCHANGED <<connVars, extVars, writeVars, readVars, cleanVars>>

Sample ==
    /\ qOp' = "sample"
    /\ \E schema \in SchemaInputs, table \in TableNameInputs :
         qStmt' = sample(schema, table, qArg)
    /\ UNCHANGED <<qQuery, qArg>>
    /\ UNCHANGED <<connVars, extVars, writeVars, readVars, cleanVars>>

NextLimit ==
    \/ EnforceLimit
    \/ Sample

\* A connector call leaves the file classes' variables alone.
ConnOnly == UNCHANGED <<extVars, writeVars, readVars, cleanVars, limitVars>>

\* ------------------------------------------------- BaseSQLConnection
NoCtx == 0
NoCall == [h |-> NoCtx, m |-> "none"]
NoScope == [h |-> NoCtx, clean |-> FALSE, failed |-> FALSE]

\* What a call on the driver's handle can do once it has been dispatched.
DriverOutcomes == {"ok", "DriverError"}

\* conn without its except clause turned into an error: a missing _ctx comes
\* back as if it were a handle.
conn_ReturnsMissing(c) == [out |-> "ok", h |-> c]

\* The conn property: self._ctx, or ConnectionError when the attribute is missing.

conn(c) ==
    IF c # NoCtx
    THEN [out |-> "ok", h |-> c]
    ELSE [out |-> "ConnectionError", h |-> NoCtx]

\* A concrete open(): connects and stores the new handle in self._ctx,
\* or fails in the driver and stores nothing.
open(c, n, ok) ==
    IF ok
    THEN [ctx |-> n + 1, n |-> n + 1, out |-> "ok"]
    ELSE [ctx |-> c, n |-> n, out |-> "DriverError"]

\* close without its del self._ctx.
close_KeepsCtx(c, cc, lc) ==
    IF c # NoCtx
    THEN [ctx |-> c,
          calls |-> [cc EXCEPT ![c] = @ + 1],
          last |-> [h |-> c, m |-> "close"]]
    ELSE [ctx |-> c, calls |-> cc, last |-> lc]

\* close(): self._ctx.close(); del self._ctx, when '_ctx' in self.__dict__.
\* The handle's own close() is taken to return.
close(c, cc, lc) ==
    IF c # NoCtx
    THEN [ctx |-> NoCtx,
          calls |-> [cc EXCEPT ![c] = @ + 1],
          last |-> [h |-> c, m |-> "close"]]
    ELSE [ctx |-> c, calls |-> cc, last |-> lc]

\* __exit__ closing only when the block ended without an exception.
exit_OnlyOnSuccess(c, cc, lc, exc) ==
    IF exc THEN [ctx |-> c, calls |-> cc, last |-> lc] ELSE close(c, cc, lc)

\* __exit__(*args): self.close(), whatever the exception arguments are.

exit(c, cc, lc, exc) == close(c, cc, lc)

\* close() ends by printing a blank line when verbose and a message was printed.
PrintsSeparator == verbose /\ prevMsg

\* A failure inside a with-block is recorded on every block it is raised in.
MarkFailed(s, out) ==
    IF out = "ok" THEN s
    ELSE [i \in 1..Len(s) |-> [s[i] EXCEPT !.failed = TRUE]]

\* An open inside a with-block replaces the handle the block was entered with.
MarkReopened(s) == [i \in 1..Len(s) |-> [s[i] EXCEPT !.clean = FALSE]]

InitConn ==
    /\ ctx = NoCtx
    /\ nHandles = 0
    /\ closeCalls = [h \in 1..MaxHandles |-> 0]
    /\ lastCall = NoCall
    /\ verbose \in BOOLEAN
    /\ prevMsg = FALSE
    /\ separators = 0
    /\ scope = <<>>
    /\ exited = NoScope
    /\ alive = TRUE
    /\ res = [op |-> "__init__", out |-> "ok", h |-> NoCtx]

\* No connector in play: the state of one that was just constructed.
IdleConn == InitConn /\ verbose = FALSE

Open ==
    /\ alive
    /\ ConnOnly
    /\ nHandles < MaxHandles
    /\ \E ok \in BOOLEAN :
         LET r == open(ctx, nHandles, ok) IN
           /\ ctx' = r.ctx
           /\ nHandles' = r.n
           /\ res' = [op |-> "open", out |-> r.out, h |-> IF ok THEN r.ctx ELSE NoCtx]
           /\ scope' = IF ok THEN MarkReopened(scope) ELSE MarkFailed(scope, r.out)
    /\ UNCHANGED <<closeCalls, lastCall, verbose, prevMsg, separators, exited, alive>>

Close ==
    /\ alive
    /\ ConnOnly
    /\ PrintsSeparator => separators < MaxSeparators
    /\ LET r == close(ctx, closeCalls, lastCall) IN
         /\ ctx' = r.ctx
         /\ closeCalls' = r.calls
         /\ lastCall' = r.last
    /\ separators' = IF PrintsSeparator THEN separators + 1 ELSE separators
    /\ res' = [op |-> "close", out |-> "ok", h |-> ctx]
    /\ UNCHANGED <<nHandles, verbose, prevMsg, scope, exited, alive>>

\* The property access c.conn.
Conn ==
    /\ alive
    /\ ConnOnly
    /\ LET r == conn(ctx) IN
         /\ res' = [op |-> "conn", out |-> r.out, h |-> r.h]
         /\ scope' = MarkFailed(scope, r.out)
    /\ UNCHANGED <<ctx, nHandles, closeCalls, lastCall, verbose, prevMsg,
                   separators, exited, alive>>

\* commit() and rollback(): self.conn.<m>().
Delegate(m) ==
    /\ alive
    /\ ConnOnly
    /\ LET r == conn(ctx) IN
         IF r.out # "ok"
         THEN /\ res' = [op |-> m, out |-> r.out, h |-> r.h]
              /\ scope' = MarkFailed(scope, r.out)
              /\ UNCHANGED lastCall
         ELSE \E o \in DriverOutcomes :
                /\ lastCall' = [h |-> r.h, m |-> m]
                /\ res' = [op |-> m, out |-> o, h |-> r.h]
                /\ scope' = MarkFailed(scope, o)
    /\ UNCHANGED <<ctx, nHandles, closeCalls, verbose, prevMsg, separators,
                   exited, alive>>

Commit == Delegate("commit")

Rollback == Delegate("rollback")

\* load() and execute() of a concrete connector: they need the handle, run the
\* statement on it and report progress through the printer.
Query ==
    /\ alive
    /\ ConnOnly
    /\ \E m \in {"load", "execute"} :
         LET r == conn(ctx) IN
           IF r.out # "ok"
           THEN /\ res' = [op |-> m, out |-> r.out, h |-> r.h]
                /\ scope' = MarkFailed(scope, r.out)
                /\ UNCHANGED <<lastCall, prevMsg>>
           ELSE \E o \in DriverOutcomes :
                  /\ lastCall' = [h |-> r.h, m |-> m]
                  /\ prevMsg' = (prevMsg \/ verbose)
                  /\ res' = [op |-> m, out |-> o, h |-> r.h]
                  /\ scope' = MarkFailed(scope, o)
    /\ UNCHANGED <<ctx, nHandles, closeCalls, verbose, separators, exited, alive>>

\* __enter__(): self.open(); the block is entered only when open returned.
Enter ==
    /\ alive
    /\ ConnOnly
    /\ nHandles < MaxHandles
    /\ Len(scope) < MaxDepth
    /\ \E ok \in BOOLEAN :
         LET r == open(ctx, nHandles, ok) IN
           /\ ctx' = r.ctx
           /\ nHandles' = r.n
           /\ res' = [op |-> "__enter__", out |-> r.out, h |-> IF ok THEN r.ctx ELSE NoCtx]
           /\ scope' = IF ok
                       THEN <<[h |-> r.ctx, clean |-> TRUE, failed |-> FALSE]>>
                              \o MarkReopened(scope)
                       ELSE MarkFailed(scope, r.out)
    /\ UNCHANGED <<closeCalls, lastCall, verbose, prevMsg, separators, exited, alive>>

\* Leaving the innermost with-block, normally or with an exception in flight.
Exit ==
    /\ alive
    /\ ConnOnly
    /\ Len(scope) > 0
    /\ PrintsSeparator => separators < MaxSeparators
    /\ LET r == exit(ctx, closeCalls, lastCall, Head(scope).failed) IN
         /\ ctx' = r.ctx
         /\ closeCalls' = r.calls
         /\ lastCall' = r.last
    /\ separators' = IF PrintsSeparator THEN separators + 1 ELSE separators
    /\ exited' = Head(scope)
    /\ scope' = Tail(scope)
    /\ res' = [op |-> "__exit__", out |-> "ok", h |-> ctx]
    /\ UNCHANGED <<nHandles, verbose, prevMsg, alive>>

\* __del__(): self.close(), when the last reference is gone.
Del ==
    /\ alive
    /\ ConnOnly
    /\ Len(scope) = 0
    /\ PrintsSeparator => separators < MaxSeparators
    /\ LET r == close(ctx, closeCalls, lastCall) IN
         /\ ctx' = r.ctx
         /\ closeCalls' = r.calls
         /\ lastCall' = r.last
    /\ separators' = IF PrintsSeparator THEN separators + 1 ELSE separators
    /\ alive' = FALSE
    /\ res' = [op |-> "__del__", out |-> "ok", h |-> ctx]
    /\ UNCHANGED <<nHandles, verbose, prevMsg, scope, exited>>

NextConn ==
    \/ Open
    \/ Close
    \/ Conn
    \/ Commit
    \/ Rollback
    \/ Query
    \/ Enter
    \/ Exit
    \/ Del

\* ------------------------------------------------------ specifications
Init == InitConn /\ IdleExt /\ IdleWrite /\ IdleRead /\ IdleClean /\ IdleLimit

Next == NextConn

Spec == Init /\ [][Next]_vars

InitExtOnly ==
    IdleConn /\ InitExt /\ IdleWrite /\ IdleRead /\ IdleClean /\ IdleLimit

SpecExt == InitExtOnly /\ [][NextExt]_vars

InitWriteOnly ==
    IdleConn /\ IdleExt /\ InitWrite /\ IdleRead /\ IdleClean /\ IdleLimit

SpecWrite == InitWriteOnly /\ [][NextWrite]_vars

InitReadOnly ==
    IdleConn /\ IdleExt /\ IdleWrite /\ InitRead /\ IdleClean /\ IdleLimit

SpecRead == InitReadOnly /\ [][NextRead]_vars

InitCleanOnly ==
    IdleConn /\ IdleExt /\ IdleWrite /\ IdleRead /\ InitClean /\ IdleLimit

SpecClean == InitCleanOnly /\ [][NextClean]_vars

InitLimitOnly ==
    IdleConn /\ IdleExt /\ IdleWrite /\ IdleRead /\ IdleClean /\ InitLimit

SpecLimit == InitLimitOnly /\ [][NextLimit]_vars

\* =================================================================== claims

GatedOps == {"conn", "commit", "rollback"}

CloseOps == {"close", "__exit__", "__del__"}

LiveHandles == {h \in 1..nHandles : closeCalls[h] = 0}

\* C1: the held handle alone gates conn, commit and rollback. With no handle
\* each of them fails with ConnectionError and changes nothing of the
\* connector; with a handle, conn returns that handle and commit/rollback are
\* invoked on it. A successful open makes conn succeed again, a close makes it
\* fail again.
C1_HandleGate ==
    [][ /\ res'.op \in GatedOps =>
             IF ctx = NoCtx
             THEN /\ res'.out = "ConnectionError"
                  /\ UNCHANGED <<ctx, nHandles, closeCalls, lastCall, verbose,
                                 prevMsg, separators, alive>>
             ELSE /\ res'.out \in DriverOutcomes
                  /\ res'.h = ctx
                  /\ res'.h # NoCtx
                  /\ ctx' = ctx
                  /\ res'.op = "conn" => (res'.out = "ok" /\ lastCall' = lastCall)
                  /\ res'.op # "conn" => lastCall' = [h |-> ctx, m |-> res'.op]
        /\ (res'.op = "open" /\ res'.out = "ok") => ctx' # NoCtx
        /\ (res.op = "open" /\ res.out = "ok" /\ res'.op = "conn") => res'.out = "ok"
        /\ (res.op = "close" /\ res'.op = "conn") => res'.out = "ConnectionError"
      ]_vars

\* C1 witness: conn returned the second handle, opened after the first was closed.
C1_Witness ==
    /\ res = [op |-> "conn", out |-> "ok", h |-> 2]
    /\ ctx = 2
    /\ closeCalls[1] = 1

C4_AtMostOneLiveHandle ==
    /\ Cardinality(LiveHandles) <= 1
    /\ (res.op = "conn" /\ res.out = "ok") => closeCalls[res.h] = 0

\* The tag each recognized extension stands for, as a table.
TagOf(e) ==
    CASE e = <<"c", "s", "v">> -> CSV
      [] e = <<"j", "s", "o", "n">> -> JSON
      [] e = <<"p", "a", "r", "q", "u", "e", "t">> -> PARQUET
      [] e = <<"h", "d", "f", "5">> -> HDF5
      [] e = <<"x", "m", "l">> -> XML
      [] e = <<"x", "l", "s">> -> EXCEL
      [] e = <<"x", "l", "s", "x">> -> EXCEL
      [] OTHER -> "ValueError"

\* C5 as stated: from_extension maps a recognized extension written in any
\* letter case to its tag, and fails with ValueError for every other text.
C5_CaseInsensitive ==
    extOp = "from_extension" => fmt = TagOf(Lower(ext))

\* C5 amended: from_extension maps exactly the lower-case spellings csv, json,
\* parquet, hdf5, xml, xls and xlsx to their tags; every other text, a
\* recognized extension with an upper-case letter included, fails with
\* ValueError. _get_file_format hands it the text after the last dot as is.
C5_ExactMatch ==
    extOp # "none" =>
        /\ fmt = TagOf(ext)
        /\ (ext # Lower(ext)) => fmt = "ValueError"
        /\ (extOp = "_get_file_format" /\ ext # <<>>) =>
              SubSeq(filepath, Len(filepath) - Len(ext), Len(filepath)) = <<".">> \o ext

\* C5 witness: from_extension was given CSV in upper case and raised ValueError.
C5_Witness ==
    /\ extOp = "from_extension"
    /\ ext = <<"C", "S", "V">>
    /\ fmt = "ValueError"

\* The format _write works with: PARQUET when none was given.
EffectiveFormat == IF wFormat = "None" THEN PARQUET ELSE wFormat

\* C6: with format HDF5 and a stream as output, _write fails with the
\* ValueError 'Cannot write HDF5 file to buffer of any type.' and calls no
\* writer, whatever the table and the options.
C6_Hdf5StreamRejected ==
    (wOut # "pending" /\ EffectiveFormat = HDF5 /\ wOutput.kind \in StreamKinds) =>
        /\ wOut = "ValueError"
        /\ wCalls = <<>>

\* The options a PARQUET export of a pandas table should hand to the writer.
ParquetDefault(k) ==
    CASE k = "coerce_timestamps" -> <<"m", "s">>
      [] k = "allow_truncated_timestamps" -> <<"T">>
      [] OTHER -> Absent

\* C7: on a PARQUET export of a pandas table the writer receives every option
\* the caller passed with the caller's value, coerce_timestamps='ms' and
\* allow_truncated_timestamps=True where the caller passed none, and nothing else.
C7_ParquetDefaultsOnly ==
    (wOut = "ok" /\ EffectiveFormat = PARQUET /\ wDf = "pandas") =>
        /\ Len(wCalls) = 1
        /\ wCalls[1].kwargs =
             [k \in OptionNames |->
                IF wKwargs[k] # Absent THEN wKwargs[k] ELSE ParquetDefault(k)]

\* C8: the table _read returns is the first min(limit, rowcount) rows of the
\* table read, in their order.
C8_LimitPrefix ==
    rOut.status = "ok" =>
        rOut.df = SubSeq(rTable, 1, IF rLimit < Len(rTable) THEN rLimit ELSE Len(rTable))

\* C9: _clean_column_name applied to its own result, with the same flags,
\* returns that result: a reserved word prefixed with an underscore by the
\* first application gains no second underscore.
C9_Idempotent ==
    cPc = "twice" => cOut2 = cOut1

\* C9 witness: the reserved word as became _as and stayed _as.
C9_Witness ==
    /\ cPc = "twice"
    /\ cName = <<"a", "s">>
    /\ cFlags = DefaultFlags
    /\ cOut1 = <<"_", "a", "s">>
    /\ cOut2 = <<"_", "a", "s">>

\* C10 as stated: the number after LIMIT in the statement of _enforce_limit
\* and of sample is greater than zero, and is 10,000,000 when the argument is
\* left out.
C10_LimitPositive ==
    qOp # "none" =>
        /\ qStmt.limit > 0
        /\ ~qArg.given => qStmt.limit = 10000000

\* C10 amended: the number after LIMIT is the argument as passed, so it is
\* greater than zero exactly when the argument passed is; it is 10,000,000
\* when the argument is left out.
C10_LimitIsArgument ==
    qOp # "none" =>
        /\ qArg.given => qStmt.limit = qArg.v
        /\ ~qArg.given => qStmt.limit = 10000000
        /\ qStmt.limit > 0 <=> (~qArg.given \/ qArg.v > 0)

\* C10 witness: _enforce_limit was called with a positive limit and wrote it.
C10_Witness ==
    /\ qOp = "_enforce_limit"
    /\ qArg.given
    /\ qArg.v > 0
    /\ qStmt.limit = qArg.v
    /\ qStmt.shape = "subquery"

====
